---- MODULE Spec2Model ----
(***************************************************************************)
(* Tic-tac-toe game controller (hook useGameState) over the pure helpers   *)
(* of utils/gameLogic.ts.  A board is a function from the cell indices     *)
(* 0..8 to a square value; the history is a sequence of boards, so the     *)
(* code's history[k] is history[k + 1] here.                               *)
(***************************************************************************)
EXTENDS Integers, Sequences, FiniteSets, TLC

\* ------------------------------------------------------------------------
\* Bounds of the model (not program constants)
\* ------------------------------------------------------------------------

\* The clicks of one line of play pass over at most MaxSkipped empty cells
\* in total (a click on the lowest empty cell passes over none).
MaxSkipped == 2

\* Rejected arguments are drawn up to Slack positions outside the valid
\* range (and, for occupied cells, around the lowest empty cell).
Slack == 1

\* The children of one ErrorBoundary throw at most MaxErrors errors.
MaxErrors == 2

\* The clock of the timers runs from 0 to MaxTime.
MaxTime == 4

\* The wait of debounce and the limit of throttle are 0..MaxDelay.
MaxDelay == 2

\* A debounced or throttled function is called at most MaxCalls times.
MaxCalls == 3

\* ------------------------------------------------------------------------
\* constants/game.ts and types/game.ts
\* ------------------------------------------------------------------------

BOARD_SIZE == 9

PLAYERS == {"X", "O"}

Null == "null"

SquareValue == PLAYERS \cup {Null}

Cells == 0..(BOARD_SIZE - 1)

\* Mutant: the diagonals are listed before the rows and columns.
WINNING_COMBINATIONS_DiagonalsFirst ==
  << <<0, 4, 8>>, <<2, 4, 6>>,
     <<0, 1, 2>>, <<3, 4, 5>>, <<6, 7, 8>>,
     <<0, 3, 6>>, <<1, 4, 7>>, <<2, 5, 8>> >>

WINNING_COMBINATIONS ==
  << <<0, 1, 2>>, <<3, 4, 5>>, <<6, 7, 8>>,
     <<0, 3, 6>>, <<1, 4, 7>>, <<2, 5, 8>>,
     <<0, 4, 8>>, <<2, 4, 6>> >>

\* ------------------------------------------------------------------------
\* utils/gameLogic.ts
\* ------------------------------------------------------------------------

\* WinnerResult.winningLine = null
NoLine == <<>>

\* The for-of loop of calculateWinner, from line number k on.
RECURSIVE WinnerFrom(_, _)
WinnerFrom(squares, k) ==
  IF k > Len(WINNING_COMBINATIONS)
  THEN [winner |-> Null, winningLine |-> NoLine]
  ELSE LET line == WINNING_COMBINATIONS[k]
           a == line[1]
           b == line[2]
           c == line[3]
       IN IF /\ squares[a] # Null
             /\ squares[a] = squares[b]
             /\ squares[a] = squares[c]
          THEN [winner |-> squares[a], winningLine |-> line]
          ELSE WinnerFrom(squares, k + 1)

\* Mutant: the lines are scanned from the last one to the first.
RECURSIVE WinnerDownFrom(_, _)
WinnerDownFrom(squares, k) ==
  IF k < 1
  THEN [winner |-> Null, winningLine |-> NoLine]
  ELSE LET line == WINNING_COMBINATIONS[k]
       IN IF /\ squares[line[1]] # Null
             /\ squares[line[1]] = squares[line[2]]
             /\ squares[line[1]] = squares[line[3]]
          THEN [winner |-> squares[line[1]], winningLine |-> line]
          ELSE WinnerDownFrom(squares, k - 1)

calculateWinner_LastLine(squares) ==
  WinnerDownFrom(squares, Len(WINNING_COMBINATIONS))

\* Mutant: two equal marks on the first two cells of a line win.
RECURSIVE TwoInLineFrom(_, _)
TwoInLineFrom(squares, k) ==
  IF k > Len(WINNING_COMBINATIONS)
  THEN [winner |-> Null, winningLine |-> NoLine]
  ELSE LET line == WINNING_COMBINATIONS[k]
       IN IF squares[line[1]] # Null /\ squares[line[1]] = squares[line[2]]
          THEN [winner |-> squares[line[1]], winningLine |-> line]
          ELSE TwoInLineFrom(squares, k + 1)

calculateWinner_TwoInLine(squares) == TwoInLineFrom(squares, 1)

calculateWinner(squares) == WinnerFrom(squares, 1)

\* Mutant: the winner test is missing.
isDraw_IgnoresWinner(squares) ==
  \A i \in Cells : squares[i] # Null

isDraw(squares) ==
  /\ calculateWinner(squares).winner = Null
  /\ \A i \in Cells : squares[i] # Null

\* Mutant: the occupancy test is missing.
isValidMove_BoundsOnly(squares, index) ==
  index >= 0 /\ index < BOARD_SIZE

isValidMove(squares, index) ==
  index >= 0 /\ index < BOARD_SIZE /\ squares[index] = Null

\* Mutant: the mark is written into the argument array itself.
makeMove_InPlace(squares, index, player) ==
  IF ~isValidMove(squares, index)
  THEN [ok |-> FALSE, squares |-> Null, input |-> squares]
  ELSE [ok |-> TRUE,
        squares |-> [squares EXCEPT ![index] = player],
        input |-> [squares EXCEPT ![index] = player]]

\* Mutant: the move is not validated (a write off the board leaves the
\* nine cells as they are).
makeMove_Trusting(squares, index, player) ==
  [ok |-> TRUE,
   squares |-> IF index \in Cells
               THEN [squares EXCEPT ![index] = player]
               ELSE squares,
   input |-> squares]

\* makeMove either throws (ok = FALSE, no board) or returns the new board
\* (a copy of the argument with one cell set); input is the argument array
\* as the call leaves it.
makeMove(squares, index, player) ==
  IF ~isValidMove(squares, index)
  THEN [ok |-> FALSE, squares |-> Null, input |-> squares]
  ELSE [ok |-> TRUE,
        squares |-> [squares EXCEPT ![index] = player],
        input |-> squares]

createEmptyBoard == [i \in Cells |-> Null]

\* Mutant: only the marks of X are counted.
getMoveCount_OnlyX(squares) == Cardinality({i \in Cells : squares[i] = "X"})

\* Mutant: the empty cells are counted.
getMoveCount_CountsEmpty(squares) ==
  Cardinality({i \in Cells : squares[i] = Null})

getMoveCount(squares) == Cardinality({i \in Cells : squares[i] # Null})

\* Mutant: O moves first.
getCurrentPlayer_OFirst(squares) ==
  IF getMoveCount(squares) % 2 = 0 THEN "O" ELSE "X"

getCurrentPlayer(squares) ==
  IF getMoveCount(squares) % 2 = 0 THEN "X" ELSE "O"

\* ------------------------------------------------------------------------
\* utils/performance.ts
\* ------------------------------------------------------------------------

\* The size above which the memoize cache drops an entry.
CacheLimit == 100

\* The Map of a memoized function is the sequence of its keys in iteration
\* order, which for a Map is the order of insertion; the value stored under
\* a key is the result of fn on the arguments of that key.
Has(keys, key) == \E k \in DOMAIN keys : keys[k] = key

\* The function that is memoized: deterministic, and equal on some of the
\* arguments.
fn(args) == (args * args) % 7

\* The key of the arguments: the arguments are numbers and each has a key
\* of its own.
getKey(args) == args + 1000

\* The values of the Map with the given value set under the key
\* (cache.set).
SetUnder(values, key, value) ==
  [k \in DOMAIN values \cup {key} |-> IF k = key THEN value ELSE values[k]]

\* The values of the Map without the key (cache.delete).
DeleteUnder(values, key) == [k \in DOMAIN values \ {key} |-> values[k]]

\* Mutant: a hit moves the key to the end of the Map (delete, then set).
memoize_RefreshesOnHit(keys, values, args) ==
  LET key == getKey(args)
  IN IF Has(keys, key)
     THEN [hit |-> TRUE, invoked |-> FALSE, value |-> values[key],
           cache |-> Append(SelectSeq(keys, LAMBDA k : k # key), key),
           values |-> values]
     ELSE LET added == Append(keys, key)
              set == SetUnder(values, key, fn(args))
          IN [hit |-> FALSE, invoked |-> TRUE, value |-> fn(args),
              cache |-> IF Len(added) > CacheLimit THEN Tail(added) ELSE added,
              values |-> IF Len(added) > CacheLimit
                         THEN DeleteUnder(set, Head(added))
                         ELSE set]

\* Mutant: a hit returns the value of the Map and calls fn all the same.
memoize_InvokesOnHit(keys, values, args) ==
  LET key == getKey(args)
  IN IF Has(keys, key)
     THEN [hit |-> TRUE, invoked |-> TRUE, value |-> values[key],
           cache |-> keys, values |-> values]
     ELSE LET added == Append(keys, key)
              set == SetUnder(values, key, fn(args))
          IN [hit |-> FALSE, invoked |-> TRUE, value |-> fn(args),
              cache |-> IF Len(added) > CacheLimit THEN Tail(added) ELSE added,
              values |-> IF Len(added) > CacheLimit
                         THEN DeleteUnder(set, Head(added))
                         ELSE set]

\* A call of the function memoize returns, with the given arguments:
\* whether the result came from the Map, whether fn was invoked, the value
\* returned, and the keys and the values of the Map after the call.
memoize(keys, values, args) ==
  LET key == getKey(args)
  IN IF Has(keys, key)
     THEN [hit |-> TRUE, invoked |-> FALSE, value |-> values[key],
           cache |-> keys, values |-> values]
     ELSE LET added == Append(keys, key)    \* cache.set(key, result)
              set == SetUnder(values, key, fn(args))
          IN [hit |-> FALSE, invoked |-> TRUE, value |-> fn(args),
              cache |-> IF Len(added) > CacheLimit
                        THEN Tail(added)    \* cache.delete(firstKey)
                        ELSE added,
              values |-> IF Len(added) > CacheLimit
                         THEN DeleteUnder(set, Head(added))
                         ELSE set]

\* No timer (the timeout of debounce before the first call: undefined);
\* the timers set are numbered from 1.
NoTimer == 0

\* setTimeout: the table of timers with one more timer, due after the
\* delay.
setTimeout(table, id, callback, delay, time) ==
  table \cup {[id |-> id, callback |-> callback, due |-> time + delay]}

\* clearTimeout: the table without the timer of the given id.
clearTimeout(table, id) == {timer \in table : timer.id # id}

\* (deviation) a call leaves the pending timer in place.
debounce_KeepsPending(closure, table, id, args, time) ==
  [closure |-> [closure EXCEPT !.timeout = id],
   timers |-> setTimeout(table, id, [fn |-> "func", args |-> args],
                         closure.delay, time)]

\* The function returned by debounce(func, wait), called with args at the
\* given time: the variables it closes over and the table of timers after
\* the call; id is the id of the timer it sets.
debounce(closure, table, id, args, time) ==
  [closure |-> [closure EXCEPT !.timeout = id],
   timers |-> setTimeout(clearTimeout(table, closure.timeout), id,
                         [fn |-> "func", args |-> args], closure.delay, time)]

\* (deviation) a call inside the window is kept and run when the window
\* closes.
throttle_RunsDroppedLater(closure, table, id, args, time) ==
  IF ~closure.inThrottle
  THEN [closure |-> [closure EXCEPT !.inThrottle = TRUE],
        timers |-> setTimeout(table, id, [fn |-> "reset", args |-> 0],
                              closure.delay, time),
        invoked |-> TRUE]
  ELSE [closure |-> closure,
        timers |-> setTimeout(table, id, [fn |-> "func", args |-> args],
                              closure.delay, time),
        invoked |-> FALSE]

\* The function returned by throttle(func, limit), called with args at the
\* given time: the variables it closes over and the table of timers after
\* the call, and whether func was invoked; id is the id of the timer it
\* sets.
throttle(closure, table, id, args, time) ==
  IF ~closure.inThrottle
  THEN [closure |-> [closure EXCEPT !.inThrottle = TRUE],
        timers |-> setTimeout(table, id, [fn |-> "reset", args |-> 0],
                              closure.delay, time),
        invoked |-> TRUE]
  ELSE [closure |-> closure, timers |-> table, invoked |-> FALSE]

\* ------------------------------------------------------------------------
\* hooks/useGameState.ts
\* ------------------------------------------------------------------------

\* gameState: the GameState held by useState, as of the last render.
\* prevState: the GameState before the last handler call (observation only).
\* lastCall:  the last handler call and whether it threw (observation only).
\* squares, returned: argument and result of a direct call of a helper of
\*            utils/gameLogic.ts (used by SpecPure only).
\* cache:     the keys of the Map of one memoized function, in iteration
\*            order (used by SpecMemo only).
\* cacheValues: the value the Map holds under each of its keys (used by
\*            SpecMemo only).
\* focusedSquare: the state of Board (the index navigation starts from).
\* activeElement: the element of the page that holds the focus
\*            (document.activeElement); used by SpecGame only, as is
\*            focusedSquare.
\* boundaryState: this.state of one ErrorBoundary.
\* boundaryProps: the props of its last render: the fallback, whether
\*            onError is given, whether rendering the children throws.
\* boundaryView: what the boundary shows, the errors caught and the calls
\*            of onError so far; whether the children were rendered, the
\*            errors caught and the calls of onError in the last pass; the
\*            last step and the state before it (observation only). Used
\*            by SpecBoundary only, as are boundaryState and boundaryProps.
\* now:       the clock of the platform.
\* timers:    the timers of the platform that are set and have not run.
\* wrapped:   the variables closed over by one function returned by
\*            debounce or by throttle, with the wait or limit it was made
\*            with.
\* timerLog:  the calls of the wrapped function and the invocations of
\*            func so far (observation only); used by SpecDebounce and
\*            SpecThrottle only, as are now, timers and wrapped.
VARIABLES gameState, prevState, lastCall, squares, returned, cache,
          focusedSquare, activeElement, boundaryState, boundaryProps,
          boundaryView, now, timers, wrapped, timerLog, cacheValues

boundaryVars == <<boundaryState, boundaryProps, boundaryView>>

timerVars == <<now, timers, wrapped, timerLog>>

\* The variables outside the hook and the helpers.
pageVars == <<focusedSquare, activeElement, boundaryVars, timerVars>>

vars ==
  <<gameState, prevState, lastCall, squares, returned, cache, cacheValues,
    pageVars>>

\* The lazy initial state of useState, also installed by resetGame.
InitialGameState ==
  [history |-> <<createEmptyBoard>>,
   currentMove |-> 0,
   winner |-> Null,
   isDraw |-> FALSE]

\* The values each render derives from the game state (useMemo); the
\* handlers of that render close over them.
currentSquares(gs) ==
  IF gs.currentMove + 1 \in DOMAIN gs.history
  THEN gs.history[gs.currentMove + 1]
  ELSE createEmptyBoard

winnerResult(gs) == calculateWinner(currentSquares(gs))

\* Mutant: the turn is derived from the length of the history.
currentPlayer_ByHistoryLength(gs) ==
  IF (Len(gs.history) - 1) % 2 = 0 THEN "X" ELSE "O"

currentPlayer(gs) == getCurrentPlayer(currentSquares(gs))

winner(gs) == winnerResult(gs).winner

winningLine(gs) == winnerResult(gs).winningLine

isGameDraw(gs) ==
  IF winner(gs) # Null THEN FALSE ELSE isDraw(currentSquares(gs))

\* The gameState object the hook returns.
ReturnedGameState(gs) ==
  [gs EXCEPT !.winner = winner(gs), !.isDraw = isGameDraw(gs)]

\* A state update handed to setGameState: a new value, or a function of
\* the previous state (jumpToMove).
\* fresh: applying the update allocates the GameState object it installs.
SetValue(value) == [fn |-> "value", value |-> value, fresh |-> TRUE]

\* Mutant: the updater writes into the previous state and returns it.
SetJump_InPlace(move, w, d) ==
  [fn |-> "jump", fresh |-> FALSE,
   value |-> [currentMove |-> move, winner |-> w, isDraw |-> d]]

SetJump(move, w, d) ==
  [fn |-> "jump", fresh |-> TRUE,
   value |-> [currentMove |-> move, winner |-> w, isDraw |-> d]]

ApplyUpdate(prev, u) ==
  IF u.fn = "value"
  THEN u.value
  ELSE [prev EXCEPT !.currentMove = u.value.currentMove,
                    !.winner = u.value.winner,
                    !.isDraw = u.value.isDraw]

RECURSIVE ApplyUpdates(_, _)
ApplyUpdates(prev, updates) ==
  IF updates = <<>>
  THEN prev
  ELSE ApplyUpdates(ApplyUpdate(prev, Head(updates)), Tail(updates))

\* The re-render installs a GameState object other than the one before when
\* one of the updates applied allocates its result.
Installs(updates) == \E k \in DOMAIN updates : updates[k].fresh

\* Array.prototype.slice(0, end): end is clamped to the length.
slice(seq, end) ==
  SubSeq(seq, 1, IF end > Len(seq) THEN Len(seq) ELSE IF end < 0 THEN 0 ELSE end)

\* What a handler call does: the updates it queues, whether an exception
\* leaves it, and whether it caught one.
Queued(updates) == [updates |-> updates, threw |-> FALSE, caught |-> FALSE]

Rejected == [updates |-> <<>>, threw |-> FALSE, caught |-> FALSE]

Thrown == [updates |-> <<>>, threw |-> TRUE, caught |-> FALSE]

Caught == [updates |-> <<>>, threw |-> FALSE, caught |-> TRUE]

\* The update an accepted click queues, given the history it appends to.
\* (Shared by the mutants of handleSquareClick below.)
ClickUpdate(newHistory, newSquares) ==
  Queued(<< SetValue([history |-> newHistory,
                      currentMove |-> Len(newHistory) - 1,
                      winner |-> calculateWinner(newSquares).winner,
                      isDraw |-> isDraw(newSquares)]) >>)

\* Mutant: the new board is appended to the whole history (no slice).
handleSquareClick_NoSlice(gs, index) ==
  IF winner(gs) # Null \/ isGameDraw(gs) \/ ~isValidMove(currentSquares(gs), index)
  THEN Rejected
  ELSE LET newSquares == [currentSquares(gs) EXCEPT ![index] = currentPlayer(gs)]
       IN ClickUpdate(Append(gs.history, newSquares), newSquares)

\* Mutant: the game-over test is missing from the guard.
handleSquareClick_IgnoresGameOver(gs, index) ==
  IF ~isValidMove(currentSquares(gs), index)
  THEN Rejected
  ELSE LET newSquares == [currentSquares(gs) EXCEPT ![index] = currentPlayer(gs)]
       IN ClickUpdate(Append(slice(gs.history, gs.currentMove + 1), newSquares),
                      newSquares)

\* Mutant: the move is neither validated nor guarded by try/catch; an
\* occupied cell is overwritten and an index off the board throws.
handleSquareClick_Unvalidated(gs, index) ==
  IF winner(gs) # Null \/ isGameDraw(gs)
  THEN Rejected
  ELSE IF index \notin Cells
  THEN Thrown
  ELSE LET newSquares == [currentSquares(gs) EXCEPT ![index] = currentPlayer(gs)]
       IN ClickUpdate(Append(slice(gs.history, gs.currentMove + 1), newSquares),
                      newSquares)

\* Mutant: every click places the mark of the initial player.
handleSquareClick_AlwaysX(gs, index) ==
  IF winner(gs) # Null \/ isGameDraw(gs) \/ ~isValidMove(currentSquares(gs), index)
  THEN Rejected
  ELSE LET newSquares == [currentSquares(gs) EXCEPT ![index] = "X"]
       IN ClickUpdate(Append(slice(gs.history, gs.currentMove + 1), newSquares),
                      newSquares)

\* Mutant: the guard does not test the move; the error of makeMove is left
\* to the catch.
handleSquareClick_CatchValidates(gs, index) ==
  IF winner(gs) # Null \/ isGameDraw(gs)
  THEN Rejected
  ELSE LET made == makeMove(currentSquares(gs), index, currentPlayer(gs))
       IN IF ~made.ok
          THEN Caught
          ELSE ClickUpdate(Append(slice(gs.history, gs.currentMove + 1),
                                  made.squares),
                           made.squares)

\* handleSquareClick of the render of gs.
handleSquareClick(gs, index) ==
  IF winner(gs) # Null \/ isGameDraw(gs) \/ ~isValidMove(currentSquares(gs), index)
  THEN Rejected
  ELSE LET made == makeMove(currentSquares(gs), index, currentPlayer(gs))
       IN IF ~made.ok
          THEN Caught    \* catch: console.warn
          ELSE LET newSquares == made.squares
                   newWinner == calculateWinner(newSquares)
                   newIsDraw == isDraw(newSquares)
                   newHistory ==
                     Append(slice(gs.history, gs.currentMove + 1), newSquares)
               IN Queued(<< SetValue([history |-> newHistory,
                                      currentMove |-> Len(newHistory) - 1,
                                      winner |-> newWinner.winner,
                                      isDraw |-> newIsDraw]) >>)

\* Mutant: winner and isDraw of the board on display are carried over.
jumpToMove_StaleFlags(gs, move) ==
  IF move < 0 \/ move >= Len(gs.history)
  THEN Rejected
  ELSE Queued(<< SetJump(move, winner(gs), isGameDraw(gs)) >>)

\* Mutant: the upper bound test is off by one and the undefined board is
\* not caught.
jumpToMove_OffByOne(gs, move) ==
  IF move < 0 \/ move > Len(gs.history)
  THEN Rejected
  ELSE LET targetSquares ==
             IF move + 1 \in DOMAIN gs.history
             THEN gs.history[move + 1]
             ELSE createEmptyBoard
       IN Queued(<< SetJump(move, calculateWinner(targetSquares).winner,
                            isDraw(targetSquares)) >>)

\* Mutant: the history is cut behind the target.
jumpToMove_Truncates(gs, move) ==
  IF move < 0 \/ move >= Len(gs.history)
  THEN Rejected
  ELSE LET targetSquares == gs.history[move + 1]
       IN Queued(<< SetValue([history |-> slice(gs.history, move + 1),
                              currentMove |-> move,
                              winner |-> calculateWinner(targetSquares).winner,
                              isDraw |-> isDraw(targetSquares)]) >>)

\* Mutant: an index out of range is clamped to the nearest valid one.
jumpToMove_Clamps(gs, move) ==
  LET m == IF move < 0 THEN 0
           ELSE IF move >= Len(gs.history) THEN Len(gs.history) - 1 ELSE move
      targetSquares == gs.history[m + 1]
  IN Queued(<< SetJump(m, calculateWinner(targetSquares).winner,
                       isDraw(targetSquares)) >>)

\* Mutant: the range test is missing; the board read off the history is
\* undefined and calculateWinner throws on it.
jumpToMove_Unchecked(gs, move) ==
  IF move + 1 \notin DOMAIN gs.history
  THEN Thrown
  ELSE LET targetSquares == gs.history[move + 1]
       IN Queued(<< SetJump(move, calculateWinner(targetSquares).winner,
                            isDraw(targetSquares)) >>)

\* jumpToMove of the render of gs.
jumpToMove(gs, move) ==
  IF move < 0 \/ move >= Len(gs.history)
  THEN Rejected
  ELSE IF move + 1 \notin DOMAIN gs.history
  THEN Rejected
  ELSE LET targetSquares == gs.history[move + 1]
           targetWinner == calculateWinner(targetSquares)
           targetIsDraw == isDraw(targetSquares)
       IN Queued(<< SetJump(move, targetWinner.winner, targetIsDraw) >>)

\* Mutant: only cursor, winner and isDraw are reset, the history is kept.
resetGame_KeepsHistory == Queued(<< SetJump(0, Null, FALSE) >>)

resetGame == Queued(<< SetValue(InitialGameState) >>)

\* ------------------------------------------------------------------------
\* components/Game, components/Board, components/Square
\* ------------------------------------------------------------------------

\* Game.isGameOver, handed to Board as its prop disabled.
isGameOver(gs) == gs.winner # Null \/ gs.isDraw

\* The 'Start a new game' button is rendered.
ResetButtonShown(gs) == isGameOver(gs)

\* The 'Reset Game' button under the history list is rendered.
ResetHistoryButtonShown(gs) == Len(gs.history) > 1

\* The moves of the buttons of the history list (history.map).
MoveButtons(gs) == {k - 1 : k \in DOMAIN gs.history}

\* (deviation) no button of the history list is disabled.
MoveButtonDisabled_Never(gs, move) == FALSE

\* renderMoveButton: the button of a move is disabled.
MoveButtonDisabled(gs, move) == move = gs.currentMove

\* The keys pressed: those the handlers name and one they do not.
Keys ==
  {"ArrowUp", "ArrowDown", "ArrowLeft", "ArrowRight", "Enter", " ", "Home",
   "End", "Escape", "Ctrl+r", "Tab"}

\* Game.handleGlobalKeyDown, the keydown listener of the document.
handleGlobalKeyDown(key) ==
  IF key = "Escape" \/ key = "Ctrl+r" THEN resetGame ELSE Rejected

\* Square.handleClick of the square of a cell, rendered from gs.
Square_handleClick(gs, index) ==
  IF ~isGameOver(gs) /\ currentSquares(gs)[index] = Null
  THEN handleSquareClick(gs, index)
  ELSE Rejected

\* Square.handleKeyDown.
Square_handleKeyDown(gs, index, key) ==
  IF key = "Enter" \/ key = " " THEN Square_handleClick(gs, index) ELSE Rejected

\* (deviation) the arrow keys stop at the edges of the board.
Board_handleKeyDown_NoWrap(gs, focused, key) ==
  LET same == [focusedSquare |-> focused, call |-> Rejected]
  IN IF isGameOver(gs)
     THEN same
     ELSE CASE key = "ArrowUp" ->
                 [same EXCEPT !.focusedSquare =
                    IF focused - 3 >= 0 THEN focused - 3 ELSE focused]
            [] key = "ArrowDown" ->
                 [same EXCEPT !.focusedSquare =
                    IF focused + 3 <= 8 THEN focused + 3 ELSE focused]
            [] key = "ArrowLeft" ->
                 [same EXCEPT !.focusedSquare =
                    IF focused > 0 THEN focused - 1 ELSE focused]
            [] key = "ArrowRight" ->
                 [same EXCEPT !.focusedSquare =
                    IF focused < 8 THEN focused + 1 ELSE focused]
            [] key = "Enter" \/ key = " " ->
                 [same EXCEPT !.call =
                    IF currentSquares(gs)[focused] = Null
                    THEN handleSquareClick(gs, focused)
                    ELSE Rejected]
            [] key = "Home" -> [same EXCEPT !.focusedSquare = 0]
            [] key = "End" -> [same EXCEPT !.focusedSquare = 8]
            [] OTHER -> same

\* Board.handleKeyDown of the render of gs and focused: the focused index
\* it sets and the call of onSquareClick it makes.
Board_handleKeyDown(gs, focused, key) ==
  LET same == [focusedSquare |-> focused, call |-> Rejected]
  IN IF isGameOver(gs)
     THEN same
     ELSE CASE key = "ArrowUp" ->
                 [same EXCEPT !.focusedSquare =
                    IF focused - 3 >= 0 THEN focused - 3 ELSE focused + 6]
            [] key = "ArrowDown" ->
                 [same EXCEPT !.focusedSquare =
                    IF focused + 3 <= 8 THEN focused + 3 ELSE focused - 6]
            [] key = "ArrowLeft" ->
                 [same EXCEPT !.focusedSquare =
                    IF focused > 0 THEN focused - 1 ELSE 8]
            [] key = "ArrowRight" ->
                 [same EXCEPT !.focusedSquare =
                    IF focused < 8 THEN focused + 1 ELSE 0]
            [] key = "Enter" \/ key = " " ->
                 [same EXCEPT !.call =
                    IF currentSquares(gs)[focused] = Null
                    THEN handleSquareClick(gs, focused)
                    ELSE Rejected]
            [] key = "Home" -> [same EXCEPT !.focusedSquare = 0]
            [] key = "End" -> [same EXCEPT !.focusedSquare = 8]
            [] OTHER -> same

\* The elements that hold the focus: the square button of a cell, the div
\* of Board (tabIndex -1: focused by a pointer), any other element.
SquareButton(index) == [kind |-> "square", index |-> index]

BoardDiv == [kind |-> "board", index |-> 0]

Elsewhere == [kind |-> "page", index |-> 0]

\* (deviation) the squares do not report the focus they receive.
onFocus_Dropped(index, focused) == focused

\* Board.renderSquare: the onFocus handed to the square of a cell sets the
\* focused index.
onFocus(index, focused) == index

\* The focus effect of Board, run after a render in which focusedSquare or
\* disabled changed: on an enabled board the focus goes to the square of
\* the focused index.
focusEffect(active, focused, disabled, changed) ==
  IF changed /\ ~disabled THEN SquareButton(focused) ELSE active

\* ------------------------------------------------------------------------
\* components/ErrorBoundary
\* ------------------------------------------------------------------------

\* No error (null); the errors thrown are numbered from 1.
NoError == 0

\* The values of the prop fallback: left out, a React element, or a node
\* that is falsy in JavaScript (null, false, 0, '').
Fallbacks == {"undefined", "element", "null"}

\* The truth value JavaScript gives a fallback in a condition.
Truthy(fallback) == fallback = "element"

\* The state set by the constructor.
InitialBoundaryState ==
  [hasError |-> FALSE, error |-> NoError, errorInfo |-> NoError]

getDerivedStateFromError(state, error) ==
  [state EXCEPT !.hasError = TRUE, !.error = error]

\* componentDidCatch: the state it sets and the calls of onError it makes;
\* the errorInfo is the component stack of the error.
componentDidCatch(state, props, error) ==
  [state |-> [state EXCEPT !.error = error, !.errorInfo = error],
   notified |-> IF props.onError THEN 1 ELSE 0]

\* handleReset: the state it sets.
ErrorBoundary_handleReset ==
  [hasError |-> FALSE, error |-> NoError, errorInfo |-> NoError]

\* render: what is returned.
ErrorBoundary_render(state, props) ==
  IF state.hasError
  THEN IF Truthy(props.fallback) THEN "fallback" ELSE "alert"
  ELSE "children"

\* One pass of React over the boundary in the given state: the children
\* are rendered unless the boundary has an error; an error thrown by them
\* goes through getDerivedStateFromError, the render of the fallback and
\* componentDidCatch.
Pass(state, props, view, op) ==
  IF ~state.hasError /\ props.throws
  THEN LET error == view.caught + 1
           caught == componentDidCatch(getDerivedStateFromError(state, error),
                                       props, error)
       IN [state |-> caught.state,
           view |-> [shown |-> ErrorBoundary_render(caught.state, props),
                     caught |-> view.caught + 1,
                     notified |-> view.notified + caught.notified,
                     children |-> TRUE, thrown |-> 1,
                     called |-> caught.notified,
                     op |-> op, before |-> view.before]]
  ELSE [state |-> state,
        view |-> [shown |-> ErrorBoundary_render(state, props),
                  caught |-> view.caught,
                  notified |-> view.notified,
                  children |-> ~state.hasError, thrown |-> 0, called |-> 0,
                  op |-> op, before |-> view.before]]

\* The props of a boundary whose children have thrown fewer than MaxErrors
\* errors so far.
BoundaryProps(caught) ==
  [fallback : Fallbacks, onError : BOOLEAN,
   throws : IF caught < MaxErrors THEN BOOLEAN ELSE {FALSE}]

\* The boundary mounted with the given props.
Mounted(props) ==
  Pass(InitialBoundaryState, props,
       [caught |-> 0, notified |-> 0, before |-> InitialBoundaryState],
       "mount")

InitBoundary(props) ==
  /\ boundaryProps = props
  /\ boundaryState = Mounted(props).state
  /\ boundaryView = Mounted(props).view

\* ------------------------------------------------------------------------
\* Spec: the controller driven one call per event; the queued update is
\* applied and the hook re-rendered before the next call.
\* ------------------------------------------------------------------------

\* The lowest empty cell from cell i on (BOARD_SIZE: none).
RECURSIVE EmptyFrom(_, _)
EmptyFrom(board, i) ==
  IF i >= BOARD_SIZE THEN BOARD_SIZE
  ELSE IF board[i] = Null THEN i ELSE EmptyFrom(board, i + 1)

LowestEmpty(board) == EmptyFrom(board, 0)

EmptyBelow(board, i) == Cardinality({j \in Cells : j < i /\ board[j] = Null})

\* The number of empty cells passed over by the moves that led to
\* history[k] (k counted from 1): a move to the lowest empty cell passes
\* over none.
RECURSIVE SkippedUpTo(_, _)
SkippedUpTo(history, k) ==
  IF k <= 1
  THEN 0
  ELSE LET before == history[k - 1]
           moved == CHOOSE i \in Cells : before[i] # history[k][i]
       IN SkippedUpTo(history, k - 1) + EmptyBelow(before, moved)

\* The n lowest empty cells from cell i on.
RECURSIVE LowestEmpties(_, _, _)
LowestEmpties(board, i, n) ==
  IF i >= BOARD_SIZE \/ n <= 0 THEN {}
  ELSE IF board[i] = Null
  THEN {i} \cup LowestEmpties(board, i + 1, n - 1)
  ELSE LowestEmpties(board, i + 1, n)

\* The indices the caller clicks: indices off the board, occupied cells
\* next to the lowest empty cell, and the empty cells whose choice keeps the
\* line of play within MaxSkipped (choosing the k-th lowest empty cell
\* passes over k - 1 cells).
ClickArgs(gs) ==
  LET board == currentSquares(gs)
      low == LowestEmpty(board)
  IN (((0 - Slack)..(BOARD_SIZE - 1 + Slack)) \ Cells)
     \cup {i \in ((low - Slack)..(low + Slack)) \cap Cells : board[i] # Null}
     \cup LowestEmpties(board, 0,
            MaxSkipped - SkippedUpTo(gs.history, gs.currentMove + 1) + 1)

JumpArgs(gs) == (0 - Slack)..(Len(gs.history) - 1 + Slack)

NoCall == [op |-> "none", arg |-> 0, threw |-> FALSE, caught |-> FALSE]

NoReturn == [fn |-> "none"]

\* After mounting, the focus effect of Board has focused the first square.
InitFocus ==
  /\ focusedSquare = 0
  /\ activeElement = SquareButton(0)

\* Before the first call of a wrapped function no timer is set.
NoLog ==
  [op |-> "none", calls |-> 0, invoked |-> 0, delivered |-> 0,
   lastCallAt |-> 0, lastArgs |-> 0, burstInvoked |-> 0, bursts |-> 0,
   closedInvoked |-> 0, opened |-> FALSE, cancelled |-> NoTimer, cancelledDue |-> 0,
   forwarded |-> FALSE, forwards |-> 0, lastForwardAt |-> 0,
   hadForward |-> FALSE, gap |-> 0, wasInThrottle |-> FALSE]

InitTimers(delay) ==
  /\ now = 0
  /\ timers = {}
  /\ wrapped = [delay |-> delay, timeout |-> NoTimer, inThrottle |-> FALSE]
  /\ timerLog = NoLog

\* The boundary as App mounts it: with onError and without a fallback.
InitApp ==
  InitBoundary([fallback |-> "undefined", onError |-> TRUE,
                throws |-> FALSE])

\* The page outside the hook: the focus, the boundary of App, no timers.
InitPage ==
  /\ InitFocus
  /\ InitApp
  /\ InitTimers(0)

InitHook ==
  /\ gameState = InitialGameState
  /\ prevState = InitialGameState
  /\ lastCall = NoCall
  /\ squares = createEmptyBoard
  /\ returned = NoReturn
  /\ cache = <<>>
  /\ cacheValues = <<>>

Init == InitHook /\ InitPage

\* The re-render after a handler call installs the queued updates; the
\* call and the state before it are recorded.
Rendered(op, arg, result) ==
  /\ gameState' = ApplyUpdates(gameState, result.updates)
  /\ prevState' = gameState
  /\ lastCall' = [op |-> op, arg |-> arg, threw |-> result.threw,
                  caught |-> result.caught,
                  installed |-> Installs(result.updates)]

Click(index) ==
  /\ Rendered("click", index, handleSquareClick(gameState, index))
  /\ UNCHANGED <<squares, returned, cache, cacheValues, pageVars>>

Jump(move) ==
  /\ Rendered("jump", move, jumpToMove(gameState, move))
  /\ UNCHANGED <<squares, returned, cache, cacheValues, pageVars>>

Reset ==
  /\ Rendered("reset", 0, resetGame)
  /\ UNCHANGED <<squares, returned, cache, cacheValues, pageVars>>

Next ==
  \/ \E index \in ClickArgs(gameState) : Click(index)
  \/ \E move \in JumpArgs(gameState) : Jump(move)
  \/ Reset

Spec == Init /\ [][Next]_vars

\* ------------------------------------------------------------------------
\* SpecBatch: a game played one call per turn, closed by one turn in which
\* two calls are issued before the hook re-renders (as inside one act()).
\* Both calls are made on the handlers of the same render, so both close
\* over the game state of that render; the updates they queue are applied
\* in order by the re-render that follows.
\* ------------------------------------------------------------------------

\* The entries of the history the caller jumps to: the first and the last
\* one, the one under the cursor and its neighbours, and the entry one past
\* the end (the one a click issued before in the same turn is expected to
\* add).
JumpTargets(gs) ==
  {0, Len(gs.history) - 1, Len(gs.history)}
  \cup (((gs.currentMove - 1)..(gs.currentMove + 1)) \cap (0..Len(gs.history)))

\* The calls the caller issues on the handlers of the render of gs: the
\* clicks of Spec on the cells of the board, the jumps and reset.
Calls(gs) ==
  {[op |-> "click", arg |-> index] : index \in ClickArgs(gs) \cap Cells}
  \cup {[op |-> "jump", arg |-> move] : move \in JumpTargets(gs)}
  \cup {[op |-> "reset", arg |-> 0]}

\* The two calls that are recorded are the last ones of a behaviour.
OpenCalls == IF lastCall.op = "none" THEN Calls(gameState) ELSE {}

OpenJumps == {call \in OpenCalls : call.op = "jump"}

\* The handler of the render of gs that a call runs.
Handle(gs, call) ==
  CASE call.op = "click" -> handleSquareClick(gs, call.arg)
    [] call.op = "jump" -> jumpToMove(gs, call.arg)
    [] call.op = "reset" -> resetGame

\* A turn of one call, then the re-render (nothing is recorded).
Turn(call) ==
  /\ gameState' = ApplyUpdates(gameState, Handle(gameState, call).updates)
  /\ UNCHANGED <<prevState, lastCall, squares, returned, cache, cacheValues, pageVars>>

\* A turn of two calls, then the re-render; the calls and the state before
\* them are recorded.
TurnOfTwo(first, second) ==
  LET one == Handle(gameState, first)
      two == Handle(gameState, second)
  IN /\ gameState' = ApplyUpdates(gameState, one.updates \o two.updates)
     /\ prevState' = gameState
     /\ lastCall' = [op |-> "batch", arg |-> 0,
                     threw |-> one.threw \/ two.threw,
                     first |-> first, second |-> second]
     /\ UNCHANGED <<squares, returned, cache, cacheValues, pageVars>>

\* Two calls in two turns: the second call is made on the handlers of the
\* render that follows the first; the calls and the state before them are
\* recorded.
TwoTurns(first, second) ==
  LET one == Handle(gameState, first)
      between == ApplyUpdates(gameState, one.updates)
      two == Handle(between, second)
  IN /\ gameState' = ApplyUpdates(between, two.updates)
     /\ prevState' = gameState
     /\ lastCall' = [op |-> "turns", arg |-> 0,
                     threw |-> one.threw \/ two.threw,
                     first |-> first, second |-> second]
     /\ UNCHANGED <<squares, returned, cache, cacheValues, pageVars>>

NextBatch ==
  \/ \E call \in OpenCalls : Turn(call)
  \/ \E first \in OpenCalls, second \in OpenCalls : TurnOfTwo(first, second)
  \/ \E first \in OpenJumps, second \in OpenJumps : TwoTurns(first, second)

SpecBatch == Init /\ [][NextBatch]_vars

\* ------------------------------------------------------------------------
\* SpecPure: the helpers of utils/gameLogic.ts called directly on any board
\* ------------------------------------------------------------------------

Boards == [Cells -> SquareValue]

InitPure ==
  /\ gameState = InitialGameState
  /\ prevState = InitialGameState
  /\ lastCall = NoCall
  /\ squares \in Boards
  /\ returned = NoReturn
  /\ cache = <<>>
  /\ cacheValues = <<>>
  /\ InitPage

\* The indices a helper is called with: the cells and up to Slack positions
\* beyond either end of the board.
IndexArgs == (0 - Slack)..(BOARD_SIZE - 1 + Slack)

\* Each behaviour is one call of one helper on one board.
CallCalculateWinner ==
  /\ returned = NoReturn
  /\ returned' = [fn |-> "calculateWinner", value |-> calculateWinner(squares)]
  /\ UNCHANGED <<gameState, prevState, lastCall, squares, cache, cacheValues, pageVars>>

CallIsDraw ==
  /\ returned = NoReturn
  /\ returned' = [fn |-> "isDraw", value |-> isDraw(squares)]
  /\ UNCHANGED <<gameState, prevState, lastCall, squares, cache, cacheValues, pageVars>>

CallIsValidMove(index) ==
  /\ returned = NoReturn
  /\ returned' = [fn |-> "isValidMove", index |-> index,
                  value |-> isValidMove(squares, index)]
  /\ UNCHANGED <<gameState, prevState, lastCall, squares, cache, cacheValues, pageVars>>

\* board is the argument as it was passed; squares is the same array after
\* the call.
CallMakeMove(index, player) ==
  /\ returned = NoReturn
  /\ LET made == makeMove(squares, index, player)
     IN /\ returned' = [fn |-> "makeMove", board |-> squares, index |-> index,
                        player |-> player, value |-> made]
        /\ squares' = made.input
  /\ UNCHANGED <<gameState, prevState, lastCall, cache, cacheValues, pageVars>>

CallGetCurrentPlayer ==
  /\ returned = NoReturn
  /\ returned' = [fn |-> "getCurrentPlayer", value |-> getCurrentPlayer(squares)]
  /\ UNCHANGED <<gameState, prevState, lastCall, squares, cache, cacheValues, pageVars>>

\* getCurrentPlayer(makeMove(squares, index, player)) for a move that
\* makeMove accepts.
CallGetCurrentPlayerOfMakeMove(index, player) ==
  /\ returned = NoReturn
  /\ LET made == makeMove(squares, index, player)
     IN /\ made.ok
        /\ returned' = [fn |-> "getCurrentPlayer.makeMove", board |-> squares,
                        index |-> index, player |-> player,
                        value |-> getCurrentPlayer(made.squares)]
        /\ squares' = made.input
  /\ UNCHANGED <<gameState, prevState, lastCall, cache, cacheValues, pageVars>>

NextPure ==
  \/ CallCalculateWinner
  \/ CallIsDraw
  \/ \E index \in IndexArgs : CallIsValidMove(index)
  \/ \E index \in IndexArgs, player \in PLAYERS : CallMakeMove(index, player)
  \/ CallGetCurrentPlayer
  \/ \E index \in IndexArgs, player \in PLAYERS :
       CallGetCurrentPlayerOfMakeMove(index, player)

SpecPure == InitPure /\ [][NextPure]_vars

\* ------------------------------------------------------------------------
\* SpecMemo: one memoized function called again and again
\* ------------------------------------------------------------------------

\* The arguments are numbered; one more than the cache can hold is enough
\* to fill it, overflow it and ask again for a key that was dropped.
MemoArgs == 1..(CacheLimit + 1)

MemoKeys == {getKey(args) : args \in MemoArgs}

\* The arguments the caller passes: those of the first, the middle and the
\* last key of the Map (hits) and the lowest ones whose key is not in the
\* Map (a miss).
KeyArgs(keys) ==
  {args \in MemoArgs :
     \E k \in {1, (Len(keys) + 1) \div 2, Len(keys)} \cap DOMAIN keys :
       keys[k] = getKey(args)}
  \cup {CHOOSE args \in MemoArgs :
          /\ ~Has(keys, getKey(args))
          /\ \A lower \in MemoArgs :
               lower < args => Has(keys, getKey(lower))}

InitMemo == Init

CallMemoized(args) ==
  LET call == memoize(cache, cacheValues, args)
  IN /\ returned' = [fn |-> "memoized", args |-> args, key |-> getKey(args),
                     before |-> cache, hit |-> call.hit, value |-> call.value,
                     invoked |-> call.invoked]
     /\ cache' = call.cache
     /\ cacheValues' = call.values
  /\ UNCHANGED <<gameState, prevState, lastCall, squares, pageVars>>

NextMemo == \E args \in KeyArgs(cache) : CallMemoized(args)

SpecMemo == InitMemo /\ [][NextMemo]_vars

\* ------------------------------------------------------------------------
\* SpecGame, SpecBoard: the game played through the page rendered by Game,
\* one event per turn. An event is dispatched to the handlers of the last
\* render (the handlers of a square, of the board and of the document all
\* run before the hook re-renders); then comes the re-render and the focus
\* effect of Board. The last event of a behaviour is recorded together with
\* the state before it.
\* SpecGame plays the lines of play of Spec with the focus kept on the
\* squares and moved by Tab or pointer; SpecBoard navigates the board with
\* every key and moves the focus anywhere, while the game is played on the
\* lowest empty cell.
\* ------------------------------------------------------------------------

NavigationKeys ==
  {"ArrowUp", "ArrowDown", "ArrowLeft", "ArrowRight", "Home", "End"}

\* No event is recorded yet.
Open == lastCall.op = "none"

\* The cells whose handlers a key pressed on the element with the focus
\* reaches.
KeyCells ==
  CASE activeElement.kind = "square" -> {activeElement.index, focusedSquare}
    [] activeElement.kind = "board" -> {focusedSquare}
    [] OTHER -> {}

\* The keys pressed while the given cells are the ones played: Enter and
\* Space are pressed on these cells only (on a disabled board, anywhere).
PressedKeys(keys, played) ==
  IF ~Open THEN {}
  ELSE IF isGameOver(gameState) \/ KeyCells \subseteq played
  THEN keys
  ELSE keys \ {"Enter", " "}

\* The cells played in SpecGame: those clicked in Spec.
GameCells == IF Open THEN ClickArgs(gameState) \cap Cells ELSE {}

\* The cells played in SpecBoard: the lowest empty cell and the occupied
\* ones.
BoardCells ==
  IF Open
  THEN {i \in Cells : currentSquares(gameState)[i] # Null
                        \/ i = LowestEmpty(currentSquares(gameState))}
  ELSE {}

\* The re-render after an event installs the queued updates and sets the
\* focused index, then the focus effect runs. When the event is the last
\* one, it is recorded with the state before it.
Shown(op, key, arg, result, focused, active) ==
  /\ gameState' = ApplyUpdates(gameState, result.updates)
  /\ focusedSquare' = focused
  /\ activeElement' =
       focusEffect(active, focused, isGameOver(gameState'),
                   focused # focusedSquare
                     \/ isGameOver(gameState') # isGameOver(gameState))
  /\ \/ UNCHANGED <<prevState, lastCall>>
     \/ /\ prevState' = gameState
        /\ lastCall' = [op |-> op, key |-> key, arg |-> arg,
                        threw |-> result.threw,
                        installed |-> Installs(result.updates),
                        focused |-> focusedSquare, active |-> activeElement]
  /\ UNCHANGED <<squares, returned, cache, cacheValues, boundaryVars, timerVars>>

\* A key pressed on the element with the focus: the event passes the
\* square, then the board, then the document.
KeyDown(key) ==
  LET square == IF activeElement.kind = "square"
                THEN Square_handleKeyDown(gameState, activeElement.index, key)
                ELSE Rejected
      board == IF activeElement.kind \in {"square", "board"}
               THEN Board_handleKeyDown(gameState, focusedSquare, key)
               ELSE [focusedSquare |-> focusedSquare, call |-> Rejected]
      global == handleGlobalKeyDown(key)
  IN Shown("key", key, 0,
           [updates |-> square.updates \o board.call.updates \o global.updates,
            threw |-> square.threw \/ board.call.threw \/ global.threw,
            caught |-> square.caught \/ board.call.caught \/ global.caught],
           board.focusedSquare, activeElement)

\* A pointer click on an enabled square button.
ClickSquare(index) ==
  /\ ~isGameOver(gameState)
  /\ Shown("click", "", index, Square_handleClick(gameState, index),
           focusedSquare, activeElement)

\* A click on an enabled button of the history list.
ClickMove(move) ==
  /\ ~MoveButtonDisabled(gameState, move)
  /\ Shown("jump", "", move, jumpToMove(gameState, move), focusedSquare,
           activeElement)

\* A click on one of the two reset buttons.
ClickReset ==
  /\ Open
  /\ ResetButtonShown(gameState) \/ ResetHistoryButtonShown(gameState)
  /\ Shown("reset", "", 0, resetGame, focusedSquare, activeElement)

\* The focus arrives on an enabled square button: by Tab, by a pointer, or
\* (the first square) by the timer Escape starts.
FocusSquare(index) ==
  /\ ~isGameOver(gameState)
  /\ Shown("focus", "", index, Rejected, onFocus(index, focusedSquare),
           SquareButton(index))

\* The focus leaves the squares, for the div of Board or another element.
FocusOff(element) ==
  /\ activeElement # element
  /\ Shown("blur", "", 0, Rejected, focusedSquare, element)

\* The buttons of the history list, while no event is recorded.
OpenMoves == IF Open THEN MoveButtons(gameState) ELSE {}

OpenElements == IF Open THEN {BoardDiv, Elsewhere} ELSE {}

NextGame ==
  \/ \E key \in PressedKeys(Keys \ NavigationKeys, GameCells) : KeyDown(key)
  \/ \E index \in GameCells : ClickSquare(index)
  \/ \E move \in OpenMoves : ClickMove(move)
  \/ ClickReset
  \/ \E index \in GameCells : FocusSquare(index)

SpecGame == Init /\ [][NextGame]_vars

NextBoard ==
  \/ \E key \in PressedKeys(Keys, BoardCells) : KeyDown(key)
  \/ \E index \in BoardCells : ClickSquare(index)
  \/ \E move \in OpenMoves : ClickMove(move)
  \/ ClickReset
  \/ \E index \in (IF Open THEN Cells ELSE {}) : FocusSquare(index)
  \/ \E element \in OpenElements : FocusOff(element)

SpecBoard == Init /\ [][NextBoard]_vars

\* ------------------------------------------------------------------------
\* SpecBoundary: one ErrorBoundary, mounted with any props, re-rendered by
\* its parent with any props and reset through the button of the default
\* alert.
\* ------------------------------------------------------------------------

InitSpecBoundary ==
  /\ InitHook
  /\ InitFocus
  /\ InitTimers(0)
  /\ \E props \in BoundaryProps(0) : InitBoundary(props)

\* The pass that follows a step of the boundary.
Passed(state, props, op) ==
  LET pass == Pass(state, props, [boundaryView EXCEPT !.before = boundaryState],
                   op)
  IN /\ boundaryState' = pass.state
     /\ boundaryProps' = props
     /\ boundaryView' = pass.view
     /\ UNCHANGED <<gameState, prevState, lastCall, squares, returned, cache, cacheValues,
                    focusedSquare, activeElement, timerVars>>

\* The parent renders the boundary again, with the given props.
Rerender(props) == Passed(boundaryState, props, "rerender")

\* A click on the 'Reset Game' button of the default alert (while the
\* children have errors left to throw, if they throw).
ClickResetGame ==
  /\ boundaryView.shown = "alert"
  /\ boundaryProps \in BoundaryProps(boundaryView.caught)
  /\ Passed(ErrorBoundary_handleReset, boundaryProps, "reset")

NextBoundary ==
  \/ \E props \in BoundaryProps(boundaryView.caught) : Rerender(props)
  \/ ClickResetGame

SpecBoundary == InitSpecBoundary /\ [][NextBoundary]_vars

\* ------------------------------------------------------------------------
\* SpecDebounce: one function returned by debounce(func, wait), called at
\* any time with any argument. A timer runs when it is due or later: the
\* platform runs a timer no earlier than its delay after it was set, and
\* a call made from another task may run before a timer that is due.
\* ------------------------------------------------------------------------

Delays == 0..MaxDelay

\* The arguments of the calls.
Args == {1, 2}

InitWrapped ==
  /\ InitHook
  /\ InitFocus
  /\ InitApp
  /\ \E delay \in Delays : InitTimers(delay)

\* The clock advances.
Tick ==
  /\ now < MaxTime
  /\ now' = now + 1
  /\ timerLog' = [timerLog EXCEPT !.op = "tick"]
  /\ UNCHANGED <<gameState, prevState, lastCall, squares, returned, cache, cacheValues,
                 focusedSquare, activeElement, boundaryVars, timers, wrapped>>

\* A call is the first one or comes wait or more after the call before it:
\* it opens a burst.
OpensBurst ==
  timerLog.calls = 0 \/ now - timerLog.lastCallAt >= wrapped.delay

\* A call of the debounced function.
CallDebounced(args) ==
  LET id == timerLog.calls + 1
      after == debounce(wrapped, timers, id, args, now)
      pending == {timer \in timers : timer.id = wrapped.timeout}
  IN /\ timerLog.calls < MaxCalls
     /\ wrapped' = after.closure
     /\ timers' = after.timers
     /\ timerLog' =
          [timerLog EXCEPT
             !.op = "call", !.calls = id, !.lastCallAt = now,
             !.lastArgs = args,
             !.opened = OpensBurst,
             !.bursts = IF OpensBurst THEN @ + 1 ELSE @,
             !.burstInvoked = IF OpensBurst THEN 0 ELSE @,
             !.closedInvoked =
                IF OpensBurst THEN timerLog.burstInvoked ELSE @,
             !.cancelled = IF pending = {} THEN NoTimer ELSE wrapped.timeout,
             !.cancelledDue =
                IF pending = {} THEN 0 ELSE (CHOOSE timer \in pending : TRUE).due]
     /\ UNCHANGED <<gameState, prevState, lastCall, squares, returned, cache, cacheValues,
                    focusedSquare, activeElement, boundaryVars, now>>

\* A timer that is due runs: the callback of debounce invokes func, the
\* one of throttle opens the window.
RunTimer(timer) ==
  /\ now >= timer.due
  /\ timers' = timers \ {timer}
  /\ wrapped' = IF timer.callback.fn = "reset"
                THEN [wrapped EXCEPT !.inThrottle = FALSE]
                ELSE wrapped
  /\ timerLog' =
       IF timer.callback.fn = "func"
       THEN [timerLog EXCEPT !.op = "run", !.invoked = @ + 1,
                             !.delivered = timer.callback.args,
                             !.burstInvoked = @ + 1]
       ELSE [timerLog EXCEPT !.op = "run"]
  /\ UNCHANGED <<gameState, prevState, lastCall, squares, returned, cache, cacheValues,
                 focusedSquare, activeElement, boundaryVars, now>>

NextDebounce ==
  \/ Tick
  \/ \E args \in Args : CallDebounced(args)
  \/ \E timer \in timers : RunTimer(timer)

SpecDebounce == InitWrapped /\ [][NextDebounce]_vars

\* ------------------------------------------------------------------------
\* SpecThrottle: one function returned by throttle(func, limit), called at
\* any time with any argument; the timers run as in SpecDebounce.
\* ------------------------------------------------------------------------

\* A call of the throttled function.
CallThrottled(args) ==
  LET id == timerLog.calls + 1
      after == throttle(wrapped, timers, id, args, now)
  IN /\ timerLog.calls < MaxCalls
     /\ wrapped' = after.closure
     /\ timers' = after.timers
     /\ timerLog' =
          [timerLog EXCEPT
             !.op = "call", !.calls = id,
             !.forwarded = after.invoked,
             !.hadForward = timerLog.forwards > 0,
             !.gap = now - timerLog.lastForwardAt,
             !.wasInThrottle = wrapped.inThrottle,
             !.forwards = IF after.invoked THEN @ + 1 ELSE @,
             !.lastForwardAt = IF after.invoked THEN now ELSE @,
             !.lastArgs = IF after.invoked THEN args ELSE @,
             !.invoked = IF after.invoked THEN @ + 1 ELSE @,
             !.delivered = IF after.invoked THEN args ELSE @]
     /\ UNCHANGED <<gameState, prevState, lastCall, squares, returned, cache, cacheValues,
                    focusedSquare, activeElement, boundaryVars, now>>

NextThrottle ==
  \/ Tick
  \/ \E args \in Args : CallThrottled(args)
  \/ \E timer \in timers : RunTimer(timer)

SpecThrottle == InitWrapped /\ [][NextThrottle]_vars

\* ------------------------------------------------------------------------
\* Vocabulary of the properties, written from the rules of the game and
\* not from the code
\* ------------------------------------------------------------------------

CanonicalLines ==
  << <<0, 1, 2>>, <<3, 4, 5>>, <<6, 7, 8>>,
     <<0, 3, 6>>, <<1, 4, 7>>, <<2, 5, 8>>,
     <<0, 4, 8>>, <<2, 4, 6>> >>

LineComplete(board, line) ==
  /\ board[line[1]] # Null
  /\ board[line[1]] = board[line[2]]
  /\ board[line[1]] = board[line[3]]

CompleteLines(board) ==
  {k \in DOMAIN CanonicalLines : LineComplete(board, CanonicalLines[k])}

Won(board) == CompleteLines(board) # {}

Full(board) == \A i \in Cells : board[i] # Null

GameOver(board) == Won(board) \/ Full(board)

EmptyBoard == [i \in Cells |-> Null]

Marked(board) == {i \in Cells : board[i] \in {"X", "O"}}

\* The mark to be placed next by the rules: X moves first, marks alternate.
TurnOn(board) == IF Cardinality(Marked(board)) % 2 = 0 THEN "X" ELSE "O"

\* history[currentMove] of a game state whose cursor is in range
BoardAt(gs) == gs.history[gs.currentMove + 1]

CursorInRange(gs) == gs.currentMove >= 0 /\ gs.currentMove < Len(gs.history)

\* The last call was click(i) in a state where the click is to be accepted.
AcceptedClick ==
  /\ lastCall.op = "click"
  /\ CursorInRange(prevState)
  /\ ~GameOver(BoardAt(prevState))
  /\ lastCall.arg \in Cells
  /\ BoardAt(prevState)[lastCall.arg] = Null

\* The controller state by the rules of the game, from the board under the
\* cursor.
Phase(gs) ==
  IF Won(BoardAt(gs)) THEN "Won"
  ELSE IF Full(BoardAt(gs)) THEN "Draw"
  ELSE "InProgress"

\* The last call took the controller from Won or Draw back to InProgress.
Resumed ==
  /\ lastCall.op # "none"
  /\ Phase(prevState) # "InProgress"
  /\ Phase(gameState) = "InProgress"

\* The last call was jumpToMove to an earlier board that is not terminal.
JumpedBack ==
  /\ lastCall.op = "jump"
  /\ lastCall.arg >= 0
  /\ lastCall.arg < prevState.currentMove
  /\ ~GameOver(prevState.history[lastCall.arg + 1])
  /\ gameState.currentMove = lastCall.arg

\* The number of cells that hold the given mark.
Count(board, mark) == Cardinality({i \in Cells : board[i] = mark})

\* The mark placed by move number k (the first move is number 1).
MarkOfMove(k) == IF k % 2 = 1 THEN "X" ELSE "O"

\* board b follows board a by move number k.
Follows(a, b, k) ==
  \E i \in Cells : a[i] = Null /\ b = [a EXCEPT ![i] = MarkOfMove(k)]

\* Some line of the board is complete with the given mark.
HasLine(board, mark) ==
  \E k \in CompleteLines(board) : board[CanonicalLines[k][1]] = mark

\* The last call was one the controller is to accept.
AcceptedCall ==
  \/ AcceptedClick
  \/ /\ lastCall.op = "jump"
     /\ lastCall.arg >= 0
     /\ lastCall.arg < Len(prevState.history)
  \/ lastCall.op = "reset"

\* The two calls recorded were jumps to entries of the history.
TwoValidJumps ==
  /\ lastCall.op \in {"batch", "turns"}
  /\ lastCall.first.op = "jump"
  /\ lastCall.second.op = "jump"
  /\ lastCall.first.arg \in 0..(Len(prevState.history) - 1)
  /\ lastCall.second.arg \in 0..(Len(prevState.history) - 1)

\* The values the hook reports are the same in both game states.
SameReport(a, b) ==
  /\ ReturnedGameState(a) = ReturnedGameState(b)
  /\ currentSquares(a) = currentSquares(b)
  /\ currentPlayer(a) = currentPlayer(b)
  /\ winningLine(a) = winningLine(b)

\* The last event was Enter or Space pressed on a focused empty square of
\* an enabled board.
KeyOnEmptySquare ==
  /\ lastCall.op = "key"
  /\ lastCall.key \in {"Enter", " "}
  /\ lastCall.active.kind = "square"
  /\ ~GameOver(BoardAt(prevState))
  /\ BoardAt(prevState)[lastCall.active.index] = Null

\* The last event was a key that reached the key handler of the board.
KeyOnBoard ==
  /\ lastCall.op = "key"
  /\ lastCall.active.kind \in {"square", "board"}

\* Row and column of a cell of the 3 by 3 grid.
RowOf(i) == i \div 3

ColumnOf(i) == i % 3

\* ------------------------------------------------------------------------
\* Properties
\* ------------------------------------------------------------------------

\* C1: an accepted click(i) at cursor c keeps history[0..c], appends exactly
\* one board, discards every entry beyond c and sets the cursor to c + 1, so
\* length(history) = cursor + 1 right after the click.
C1_ClickPrunesAndAppends ==
  AcceptedClick =>
    LET c == prevState.currentMove
    IN /\ Len(gameState.history) = c + 2
       /\ \A k \in 1..(c + 1) : gameState.history[k] = prevState.history[k]
       /\ gameState.currentMove = c + 1
       /\ Len(gameState.history) = gameState.currentMove + 1

\* An accepted click made after jumping back: at least two later entries
\* were discarded.
C1_Witness ==
  /\ AcceptedClick
  /\ Len(prevState.history) >= prevState.currentMove + 3
  /\ Len(gameState.history) = prevState.currentMove + 2

\* C2: the reported (and the stored) winner and isDraw are those of the
\* board under the cursor, the reported winningLine is its winning line and
\* currentSquares is history[currentMove].
C2_DerivedFromBoardUnderCursor ==
  /\ CursorInRange(gameState)
  /\ LET board == BoardAt(gameState)
         reported == ReturnedGameState(gameState)
     IN /\ currentSquares(gameState) = board
        /\ reported.winner = calculateWinner(board).winner
        /\ reported.isDraw = isDraw(board)
        /\ winningLine(gameState) = calculateWinner(board).winningLine
        /\ gameState.winner = calculateWinner(board).winner
        /\ gameState.isDraw = isDraw(board)
        /\ reported.isDraw = (Full(board) /\ ~Won(board))
        /\ (reported.winner # Null) = Won(board)

\* A jump from a board without winner onto the board O has won.
C2_Witness ==
  /\ lastCall.op = "jump"
  /\ prevState.winner = Null
  /\ ReturnedGameState(gameState).winner = "O"
  /\ winningLine(gameState) # NoLine

\* C3: the cursor is an index into the history, which is never empty.
C3_CursorInRange ==
  /\ Len(gameState.history) >= 1
  /\ 0 <= gameState.currentMove
  /\ gameState.currentMove < Len(gameState.history)

\* A jump one past the end of a history of several boards was attempted.
C3_Witness ==
  /\ lastCall.op = "jump"
  /\ lastCall.arg = Len(prevState.history)
  /\ Len(prevState.history) >= 3
  /\ gameState.currentMove < Len(gameState.history)

\* C4: on a Won or Draw board click(i) changes nothing, for every i.
C4_ClickWhenOverIsNoOp ==
  (/\ lastCall.op = "click"
   /\ CursorInRange(prevState)
   /\ GameOver(BoardAt(prevState)))
  => /\ gameState.history = prevState.history
     /\ gameState.currentMove = prevState.currentMove
     /\ gameState.winner = prevState.winner
     /\ gameState.isDraw = prevState.isDraw
     /\ SameReport(gameState, prevState)

\* A click on an empty cell of a won board.
C4_Witness ==
  /\ lastCall.op = "click"
  /\ Won(BoardAt(prevState))
  /\ lastCall.arg \in Cells
  /\ BoardAt(prevState)[lastCall.arg] = Null

\* C5: click(i) with i out of range or on an occupied cell changes nothing
\* and throws nothing.
C5_InvalidClickIsNoOp ==
  (/\ lastCall.op = "click"
   /\ CursorInRange(prevState)
   /\ \/ lastCall.arg < 0
      \/ lastCall.arg >= 9
      \/ BoardAt(prevState)[lastCall.arg] # Null)
  => /\ gameState.history = prevState.history
     /\ gameState.currentMove = prevState.currentMove
     /\ SameReport(gameState, prevState)
     /\ lastCall.threw = FALSE

\* A click on an occupied cell while the game is in progress.
C5_Witness ==
  /\ lastCall.op = "click"
  /\ lastCall.arg \in Cells
  /\ ~GameOver(BoardAt(prevState))
  /\ BoardAt(prevState)[lastCall.arg] # Null

\* C6: the board appended by an accepted click(i) is the old board with
\* cell i set to getCurrentPlayer(old board); from the empty board on, X and
\* O alternate.
C6_ClickPlacesCurrentPlayer ==
  AcceptedClick =>
    LET old == BoardAt(prevState)
        new == gameState.history[Len(gameState.history)]
        i == lastCall.arg
    IN /\ \A j \in Cells \ {i} : new[j] = old[j]
       /\ new[i] = getCurrentPlayer(old)
       /\ new[i] = (IF prevState.currentMove % 2 = 0 THEN "X" ELSE "O")
       /\ currentSquares(gameState) = new

\* The fourth mark of a game, an O, has just been placed.
C6_Witness ==
  /\ AcceptedClick
  /\ prevState.currentMove = 3
  /\ currentSquares(gameState)[lastCall.arg] = "O"

\* C7: jumpToMove(m) with m in range sets the cursor to m, keeps the
\* history, and winner, isDraw and currentPlayer become those of history[m];
\* from a Won board an earlier board reports no winner.
C7_JumpMovesCursorOnly ==
  (/\ lastCall.op = "jump"
   /\ 0 <= lastCall.arg
   /\ lastCall.arg < Len(prevState.history))
  => LET m == lastCall.arg
         target == prevState.history[m + 1]
         reported == ReturnedGameState(gameState)
     IN /\ gameState.currentMove = m
        /\ gameState.history = prevState.history
        /\ reported.winner = calculateWinner(target).winner
        /\ reported.isDraw = isDraw(target)
        /\ currentPlayer(gameState) = getCurrentPlayer(target)
        /\ currentSquares(gameState) = target
        /\ (Won(BoardAt(prevState)) /\ m < prevState.currentMove
              => reported.winner = Null)

\* A jump from a won board back to an earlier board.
C7_Witness ==
  /\ lastCall.op = "jump"
  /\ Won(BoardAt(prevState))
  /\ 0 <= lastCall.arg
  /\ lastCall.arg < prevState.currentMove
  /\ ReturnedGameState(gameState).winner = Null

\* C8: jumpToMove(m) with m out of range changes nothing and throws nothing.
C8_InvalidJumpIsNoOp ==
  (/\ lastCall.op = "jump"
   /\ (lastCall.arg < 0 \/ lastCall.arg >= Len(prevState.history)))
  => /\ gameState.history = prevState.history
     /\ gameState.currentMove = prevState.currentMove
     /\ gameState.winner = prevState.winner
     /\ gameState.isDraw = prevState.isDraw
     /\ SameReport(gameState, prevState)
     /\ lastCall.threw = FALSE

\* A jump to a negative index while the cursor is in the middle of the
\* history.
C8_Witness ==
  /\ lastCall.op = "jump"
  /\ lastCall.arg < 0
  /\ 0 < prevState.currentMove
  /\ prevState.currentMove < Len(prevState.history) - 1

\* C9: reset yields the initial state from every state (so it is idempotent).
C9_ResetYieldsInitialState ==
  lastCall.op = "reset" =>
    /\ gameState.history = <<EmptyBoard>>
    /\ gameState.currentMove = 0
    /\ ReturnedGameState(gameState) =
         [history |-> <<EmptyBoard>>, currentMove |-> 0,
          winner |-> Null, isDraw |-> FALSE]
    /\ gameState.winner = Null
    /\ gameState.isDraw = FALSE
    /\ winningLine(gameState) = NoLine
    /\ currentPlayer(gameState) = "X"
    /\ lastCall.threw = FALSE

\* A reset of a drawn game.
C9_Witness ==
  /\ lastCall.op = "reset"
  /\ Full(BoardAt(prevState))
  /\ ~Won(BoardAt(prevState))
  /\ gameState.currentMove = 0

\* C10: calculateWinner returns the mark and the triple of the first
\* complete line in the canonical order, and (null, null) exactly when no
\* line is complete.
C10_FirstCompleteLineWins ==
  returned.fn = "calculateWinner" =>
    LET complete == CompleteLines(squares)
    IN IF complete = {}
       THEN returned.value = [winner |-> Null, winningLine |-> NoLine]
       ELSE LET first == CHOOSE k \in complete : \A n \in complete : k <= n
            IN /\ returned.value.winningLine = CanonicalLines[first]
               /\ returned.value.winner = squares[CanonicalLines[first][1]]
               /\ returned.value.winner # Null

\* calculateWinner was called on a board with two complete lines of
\* different marks.
C10_Witness ==
  /\ returned.fn = "calculateWinner"
  /\ \E k, n \in CompleteLines(squares) :
       squares[CanonicalLines[k][1]] # squares[CanonicalLines[n][1]]

\* C11: isDraw(board) is true exactly when no line of the board is complete
\* and all nine cells are marked.
C11_IsDrawIffFullWithoutWinner ==
  returned.fn = "isDraw" =>
    /\ returned.value = (~Won(squares) /\ Full(squares))
    /\ returned.value = (calculateWinner(squares).winner = Null /\ Full(squares))

\* isDraw was called on a full board with a complete line and answered no.
C11_Witness ==
  /\ returned.fn = "isDraw"
  /\ Full(squares)
  /\ Won(squares)
  /\ returned.value = FALSE

\* C12: isValidMove(board, index) is true exactly when index is a cell of
\* the board and that cell is empty; an index below 0 or above 8 yields
\* false.
C12_IsValidMoveIffEmptyCell ==
  returned.fn = "isValidMove" =>
    /\ returned.value = (returned.index \in 0..8 /\ squares[returned.index] = Null)
    /\ (returned.index < 0 \/ returned.index >= 9) => returned.value = FALSE

\* isValidMove was called with an occupied cell and answered no.
C12_Witness ==
  /\ returned.fn = "isValidMove"
  /\ returned.index \in Cells
  /\ squares[returned.index] # Null
  /\ returned.value = FALSE

\* C13: a successful makeMove returns a board equal to the argument except
\* that the cell index holds the mark, and the argument board has the same
\* contents after the call, whether it succeeded or failed.
C13_MakeMoveCopiesTheBoard ==
  returned.fn = "makeMove" =>
    /\ squares = returned.board
    /\ returned.value.ok =>
         /\ returned.value.squares \in Boards
         /\ \A i \in Cells :
              returned.value.squares[i] =
                IF i = returned.index THEN returned.player ELSE returned.board[i]

\* makeMove succeeded on a board that already held marks.
C13_Witness ==
  /\ returned.fn = "makeMove"
  /\ returned.value.ok
  /\ returned.board # EmptyBoard
  /\ returned.value.squares # returned.board
  /\ squares = returned.board

\* C14: makeMove fails, returning no board, exactly when the index is off
\* the board or the cell is occupied, whatever the caller checked before.
C14_MakeMoveFailsIffInvalid ==
  returned.fn = "makeMove" =>
    /\ returned.value.ok =
         (returned.index \in Cells /\ returned.board[returned.index] = Null)
    /\ IF returned.value.ok
       THEN returned.value.squares \in Boards
       ELSE returned.value.squares = Null

\* makeMove failed on an occupied cell.
C14_Witness ==
  /\ returned.fn = "makeMove"
  /\ returned.index \in Cells
  /\ returned.board[returned.index] # Null
  /\ ~returned.value.ok

\* C15: getCurrentPlayer(board) is X when the number of marked cells is
\* even and O when it is odd; so X on the empty board and O on a full one.
C15_TurnByParityOfMarks ==
  returned.fn = "getCurrentPlayer" =>
    /\ returned.value = TurnOn(squares)
    /\ squares = EmptyBoard => returned.value = "X"
    /\ Full(squares) => returned.value = "O"

\* getCurrentPlayer answered X on a board with an even number of marks that
\* are not evenly split between X and O.
C15_Witness ==
  /\ returned.fn = "getCurrentPlayer"
  /\ Cardinality(Marked(squares)) = 4
  /\ \A i \in Marked(squares) : squares[i] = "O"
  /\ returned.value = "X"

\* C16 as stated: for every board b, every index i valid on b and every
\* mark m, getCurrentPlayer(makeMove(b, i, m)) differs from m.
C16_AsStated ==
  returned.fn = "getCurrentPlayer.makeMove" => returned.value # returned.player

\* C16: for every board b, every index i valid on b and every mark m,
\* getCurrentPlayer(makeMove(b, i, m)) differs from m exactly when m is the
\* mark whose turn it is on b (the parity of the marks of b).
C16_TurnPassesAfterOwnMove ==
  returned.fn = "getCurrentPlayer.makeMove" =>
    (returned.value # returned.player) = (returned.player = TurnOn(returned.board))

\* The mark whose turn it was has been placed and the turn has passed on.
C16_Witness ==
  /\ returned.fn = "getCurrentPlayer.makeMove"
  /\ returned.board # EmptyBoard
  /\ returned.player = TurnOn(returned.board)
  /\ returned.value # returned.player

\* C18 as stated: a call that takes the controller from Won or Draw back to
\* InProgress is a jumpToMove to an earlier non-terminal board, and nothing
\* else.
C18_AsStated == Resumed => JumpedBack

\* C18: a call that takes the controller from Won or Draw back to
\* InProgress is a jumpToMove to an earlier non-terminal board or a reset;
\* a click and a rejected jump leave it in Won or Draw.
C18_OnlyJumpBackOrResetResumes ==
  /\ Resumed => (JumpedBack \/ lastCall.op = "reset")
  /\ (lastCall.op = "click" /\ Phase(prevState) # "InProgress") =>
       Phase(gameState) = Phase(prevState)
  /\ (lastCall.op = "jump" /\ Phase(prevState) # "InProgress" /\ ~JumpedBack) =>
       Phase(gameState) = Phase(prevState)

\* A jump from a drawn board back to an earlier board resumed the game.
C18_Witness ==
  /\ Resumed
  /\ JumpedBack
  /\ Phase(prevState) = "Draw"
  /\ lastCall.arg > 0

\* C19: no call of click, jumpToMove or reset ends with an exception; each
\* call is either accepted, with the state updated as specified, or
\* rejected, with the state unchanged; reset is always accepted.
C19_AcceptedOrRejectedNeverThrown ==
  lastCall.op # "none" =>
    /\ ~lastCall.threw
    /\ lastCall.op = "click" =>
         IF AcceptedClick
         THEN /\ gameState.currentMove = prevState.currentMove + 1
              /\ Len(gameState.history) = gameState.currentMove + 1
              /\ SubSeq(gameState.history, 1, prevState.currentMove + 1)
                   = SubSeq(prevState.history, 1, prevState.currentMove + 1)
              /\ BoardAt(gameState) =
                   [BoardAt(prevState) EXCEPT ![lastCall.arg] = TurnOn(BoardAt(prevState))]
         ELSE gameState = prevState
    /\ lastCall.op = "jump" =>
         IF lastCall.arg >= 0 /\ lastCall.arg < Len(prevState.history)
         THEN /\ gameState.history = prevState.history
              /\ gameState.currentMove = lastCall.arg
         ELSE gameState = prevState
    /\ lastCall.op = "reset" =>
         /\ gameState.history = << EmptyBoard >>
         /\ gameState.currentMove = 0

\* A click off the board was rejected in the middle of a game without an
\* exception and without a change of state.
C19_Witness ==
  /\ lastCall.op = "click"
  /\ lastCall.arg \notin Cells
  /\ ~lastCall.threw
  /\ prevState.currentMove > 0
  /\ gameState = prevState

\* C20: the controller is in exactly one of InProgress, Won and Draw: a
\* winner and isDraw = true are never reported (or stored) together, the
\* reported values are those of the board on display, and a full board
\* with a complete line is reported Won, not Draw.
C20_WonAndDrawExclusive ==
  LET board == BoardAt(gameState)
      report == ReturnedGameState(gameState)
  IN /\ ~(report.winner # Null /\ report.isDraw)
     /\ ~(gameState.winner # Null /\ gameState.isDraw)
     /\ (report.winner # Null) = (Phase(gameState) = "Won")
     /\ report.isDraw = (Phase(gameState) = "Draw")
     /\ (report.winner = Null /\ ~report.isDraw) = (Phase(gameState) = "InProgress")
     /\ (Full(board) /\ Won(board)) =>
          /\ report.winner # Null /\ ~report.isDraw
          /\ gameState.winner # Null /\ ~gameState.isDraw

\* The last mark filled the board and completed a line: reported Won.
C20_Witness ==
  /\ lastCall.op = "click"
  /\ Full(BoardAt(gameState))
  /\ Won(BoardAt(gameState))
  /\ ReturnedGameState(gameState).winner = "X"
  /\ ~ReturnedGameState(gameState).isDraw

\* C17: two clicks issued within one turn are each judged against the
\* state left by the call before: on a board where the game goes on, clicks
\* on two distinct empty cells are both recorded, in order and with
\* alternating marks, and a second click on the same cell is rejected as
\* occupied, so that one move is recorded.
C17_BatchedClicksSeeEachOther ==
  (/\ lastCall.op = "batch"
   /\ lastCall.first.op = "click"
   /\ lastCall.second.op = "click"
   /\ lastCall.first.arg \in Cells
   /\ lastCall.second.arg \in Cells
   /\ ~GameOver(BoardAt(prevState))
   /\ BoardAt(prevState)[lastCall.first.arg] = Null) =>
    LET before == BoardAt(prevState)
        cursor == prevState.currentMove
        i == lastCall.first.arg
        j == lastCall.second.arg
        afterFirst == [before EXCEPT ![i] = TurnOn(before)]
        afterSecond == [afterFirst EXCEPT ![j] = TurnOn(afterFirst)]
    IN /\ SubSeq(gameState.history, 1, cursor + 1)
            = SubSeq(prevState.history, 1, cursor + 1)
       /\ IF i # j /\ before[j] = Null /\ ~GameOver(afterFirst)
          THEN /\ gameState.currentMove = cursor + 2
               /\ Len(gameState.history) = cursor + 3
               /\ gameState.history[cursor + 2] = afterFirst
               /\ gameState.history[cursor + 3] = afterSecond
          ELSE /\ gameState.currentMove = cursor + 1
               /\ Len(gameState.history) = cursor + 2
               /\ gameState.history[cursor + 2] = afterFirst

\* C21 as stated: after an operation the installed snapshot differs in
\* identity from the previous one if and only if history, cursor, winner or
\* isDraw changed.
C21_AsStated ==
  lastCall.op # "none" => (lastCall.installed = (gameState # prevState))

\* C21: after an operation the installed snapshot differs in identity from
\* the previous one if and only if the call was accepted (a click on an
\* empty cell of a running game, a jump within the history, a reset); a
\* change of history, cursor, winner or isDraw implies a new snapshot, and
\* a rejected call installs nothing and changes nothing.
C21_NewSnapshotIffAccepted ==
  lastCall.op # "none" =>
    /\ lastCall.installed = AcceptedCall
    /\ gameState # prevState => lastCall.installed
    /\ ~lastCall.installed => gameState = prevState

\* A jump to the move already on display installed a new snapshot with the
\* contents of the previous one.
C21_Witness ==
  /\ lastCall.op = "jump"
  /\ lastCall.arg = prevState.currentMove
  /\ prevState.currentMove > 0
  /\ lastCall.installed
  /\ gameState = prevState

\* C22: after every call of a memoized function the cache holds at most 100
\* entries; a hit leaves the cache as it was (nothing reordered, nothing
\* evicted); a miss appends the new key and, when that makes 101 entries,
\* removes the oldest-inserted key still present and no other.
C22_CacheIsCappedFifo ==
  /\ Len(cache) <= 100
  /\ \A a, b \in DOMAIN cache : cache[a] = cache[b] => a = b
  /\ returned.fn = "memoized" =>
       LET before == returned.before
           present == \E k \in DOMAIN before : before[k] = returned.key
       IN /\ returned.hit = present
          /\ present => cache = before
          /\ (~present /\ Len(before) < 100) => cache = Append(before, returned.key)
          /\ (~present /\ Len(before) >= 100) =>
               cache = Append(SubSeq(before, 2, Len(before)), returned.key)

\* A key dropped earlier was asked for again while the cache was full: it
\* went to the end and the oldest key was dropped.
C22_Witness ==
  /\ returned.fn = "memoized"
  /\ ~returned.hit
  /\ Len(returned.before) = 100
  /\ returned.key < returned.before[1]
  /\ Len(cache) = 100
  /\ cache[100] = returned.key
  /\ \A k \in DOMAIN cache : cache[k] # returned.before[1]

\* C23: the board history[k] carries exactly k marks, and currentPlayer is
\* X exactly when currentMove is even; a jump to move m makes it the turn
\* of X for even m and of O for odd m.
C23_TurnByParityOfCursor ==
  /\ \A k \in DOMAIN gameState.history :
       Cardinality(Marked(gameState.history[k])) = k - 1
  /\ (currentPlayer(gameState) = "X") = (gameState.currentMove % 2 = 0)
  /\ (currentPlayer(gameState) = "O") = (gameState.currentMove % 2 = 1)
  /\ (/\ lastCall.op = "jump"
      /\ lastCall.arg >= 0
      /\ lastCall.arg < Len(prevState.history)) =>
       currentPlayer(gameState) = IF lastCall.arg % 2 = 0 THEN "X" ELSE "O"

\* A jump back to an odd move of a longer history made it the turn of O.
C23_Witness ==
  /\ lastCall.op = "jump"
  /\ lastCall.arg % 2 = 1
  /\ lastCall.arg < prevState.currentMove
  /\ Len(gameState.history) % 2 = 1
  /\ gameState.currentMove = lastCall.arg
  /\ currentPlayer(gameState) = "O"

\* C24: the history is a legal line of play: it starts with the empty
\* board, each further board equals the one before except for one cell
\* that was empty and now holds X (odd moves) or O (even moves), and on
\* every stored board X has as many marks as O or one more.
C24_HistoryIsLegalLineOfPlay ==
  /\ Len(gameState.history) >= 1
  /\ gameState.history[1] = EmptyBoard
  /\ \A k \in 1..(Len(gameState.history) - 1) :
       Follows(gameState.history[k], gameState.history[k + 1], k)
  /\ \A k \in DOMAIN gameState.history :
       Count(gameState.history[k], "X") - Count(gameState.history[k], "O")
         \in {0, 1}

\* A click after a jump back replaced the old continuation of the game.
C24_Witness ==
  /\ AcceptedClick
  /\ prevState.currentMove >= 2
  /\ prevState.currentMove + 1 < Len(prevState.history)
  /\ gameState.history[gameState.currentMove + 1]
       # prevState.history[gameState.currentMove + 1]

\* C25: the history never holds more than 10 boards and currentMove never
\* exceeds 9; every accepted click advances currentMove by one, a running
\* game always accepts some click, and a board with 9 marks is Won or Draw
\* and accepts no click: so accepted clicks alone reach Won or Draw after
\* at most 9 - currentMove of them.
C25_EveryGameEnds ==
  /\ Len(gameState.history) <= 10
  /\ gameState.currentMove <= 9
  /\ Cardinality(Marked(BoardAt(gameState))) = gameState.currentMove
  /\ gameState.currentMove = 9 => Phase(gameState) # "InProgress"
  /\ Phase(gameState) = "InProgress" =>
       \E i \in Cells : handleSquareClick(gameState, i).updates # <<>>
  /\ Phase(gameState) # "InProgress" =>
       \A i \in Cells : handleSquareClick(gameState, i).updates = <<>>
  /\ AcceptedClick =>
       /\ gameState.currentMove = prevState.currentMove + 1
       /\ 9 - gameState.currentMove >= 0
  /\ (lastCall.op = "click" /\ prevState.currentMove = 9) =>
       gameState = prevState

\* The ninth click of a game ended it in a draw.
C25_Witness ==
  /\ AcceptedClick
  /\ gameState.currentMove = 9
  /\ Len(gameState.history) = 10
  /\ Phase(gameState) = "Draw"

\* C26: only the last entry of the history can be a terminal board: every
\* earlier entry has no complete line and is not full, so Won or Draw is
\* displayed only with currentMove = length(history) - 1.
C26_OnlyLastBoardTerminal ==
  /\ \A k \in 1..(Len(gameState.history) - 1) :
       /\ ~GameOver(gameState.history[k])
       /\ calculateWinner(gameState.history[k]).winner = Null
       /\ ~isDraw(gameState.history[k])
  /\ (winner(gameState) # Null \/ isGameDraw(gameState)) =>
       gameState.currentMove = Len(gameState.history) - 1

\* A jump forward to the last entry of the history displays a won game.
C26_Witness ==
  /\ lastCall.op = "jump"
  /\ prevState.currentMove < gameState.currentMove
  /\ gameState.currentMove = Len(gameState.history) - 1
  /\ winner(gameState) # Null

\* C27: a reported winner is the player who placed the last mark on the
\* board on display (the opposite of currentPlayer), the other mark has no
\* complete line there, and currentMove is at least 5; a draw is reported
\* only with currentMove = 9.
C27_WinnerPlacedLastMark ==
  /\ winner(gameState) # Null =>
       /\ winner(gameState) = MarkOfMove(gameState.currentMove)
       /\ winner(gameState) # currentPlayer(gameState)
       /\ gameState.currentMove >= 1
       /\ \E i \in Cells :
            /\ gameState.history[gameState.currentMove][i] = Null
            /\ BoardAt(gameState)[i] = winner(gameState)
       /\ \A mark \in {"X", "O"} \ {winner(gameState)} :
            ~HasLine(BoardAt(gameState), mark)
       /\ gameState.currentMove >= 5
  /\ isGameDraw(gameState) => gameState.currentMove = 9
  /\ gameState.winner # Null => gameState.currentMove >= 5
  /\ gameState.isDraw => gameState.currentMove = 9

\* O won with its third mark.
C27_Witness ==
  /\ AcceptedClick
  /\ gameState.currentMove = 6
  /\ winner(gameState) = "O"
  /\ currentPlayer(gameState) = "X"

\* C28: on a reachable board with two complete lines both carry the same
\* mark, that mark is the reported winner, and the reported winningLine is
\* the one of them that comes first in the canonical order of the lines.
C28_FirstOfTwoLinesReported ==
  LET board == BoardAt(gameState)
      complete == CompleteLines(board)
      first == CHOOSE k \in complete : \A other \in complete : k <= other
  IN Cardinality(complete) >= 2 =>
       /\ \A k \in complete :
            board[CanonicalLines[k][1]] = board[CanonicalLines[first][1]]
       /\ winner(gameState) = board[CanonicalLines[first][1]]
       /\ winningLine(gameState) = CanonicalLines[first]
       /\ ReturnedGameState(gameState).winner = board[CanonicalLines[first][1]]

\* One click completed a column and a diagonal at once; the column is
\* reported.
C28_Witness ==
  /\ AcceptedClick
  /\ Cardinality(CompleteLines(BoardAt(gameState))) = 2
  /\ CompleteLines(BoardAt(gameState)) \cap {4, 5, 6} # {}
  /\ CompleteLines(BoardAt(gameState)) \cap {7, 8} # {}
  /\ winningLine(gameState) \in {<<0, 3, 6>>, <<1, 4, 7>>, <<2, 5, 8>>}

\* C29: after several calls issued within one turn, the committed state has
\* its cursor on the history, and the displayed board, winner and isDraw
\* are those of history[currentMove].
C29_BatchKeepsCursorOnHistory ==
  lastCall.op = "batch" =>
    /\ CursorInRange(gameState)
    /\ currentSquares(gameState) = BoardAt(gameState)
    /\ (ReturnedGameState(gameState).winner # Null) = Won(BoardAt(gameState))
    /\ ReturnedGameState(gameState).isDraw =
         (Full(BoardAt(gameState)) /\ ~Won(BoardAt(gameState)))

\* C30: jumpToMove(m) followed by jumpToMove(n), with m and n on the
\* history, in two turns or within one turn, leaves the history as it was,
\* the cursor on n and winner and isDraw those of history[n], as
\* jumpToMove(n) alone does; so two equal jumps act as one and a jump to
\* currentMove changes nothing.
C30_SecondJumpDecides ==
  TwoValidJumps =>
    LET n == lastCall.second.arg
        target == prevState.history[n + 1]
    IN /\ gameState.history = prevState.history
       /\ gameState.currentMove = n
       /\ (gameState.winner # Null) = Won(target)
       /\ gameState.winner # Null => HasLine(target, gameState.winner)
       /\ gameState.isDraw = (Full(target) /\ ~Won(target))
       /\ gameState = ApplyUpdates(prevState, jumpToMove(prevState, n).updates)
       /\ n = prevState.currentMove => gameState = prevState

\* Two jumps to different entries within one turn ended on the won board
\* at the end of the history, coming from an earlier board.
C30_Witness ==
  /\ TwoValidJumps
  /\ lastCall.op = "batch"
  /\ lastCall.first.arg # lastCall.second.arg
  /\ lastCall.first.arg # prevState.currentMove
  /\ lastCall.second.arg # prevState.currentMove
  /\ gameState.winner # Null

\* C31: Enter or Space pressed on a focused empty square of an enabled board
\* records exactly one move on that square, although the key event runs the
\* key handler of the square and then the one of the board in the same
\* turn: the history up to the cursor gets exactly one more board, which is
\* the board before with the mark of the player to move on that square,
\* the cursor advances by one and the turn passes once.
C31_KeyRecordsOneMove ==
  KeyOnEmptySquare =>
    LET before == BoardAt(prevState)
        index == lastCall.active.index
    IN /\ gameState.history =
            Append(SubSeq(prevState.history, 1, prevState.currentMove + 1),
                   [before EXCEPT ![index] = TurnOn(before)])
       /\ gameState.currentMove = prevState.currentMove + 1
       /\ Cardinality(Marked(BoardAt(gameState)))
            = Cardinality(Marked(before)) + 1
       /\ currentPlayer(gameState) # currentPlayer(prevState)
       /\ currentPlayer(gameState) = TurnOn(BoardAt(gameState))

\* Space pressed on a focused empty square other than the first, after a
\* jump back: both key handlers have called handleSquareClick.
C31_Witness ==
  /\ KeyOnEmptySquare
  /\ lastCall.key = " "
  /\ lastCall.active.index # 0
  /\ lastCall.focused = lastCall.active.index
  /\ prevState.currentMove + 1 < Len(prevState.history)
  /\ Len(gameState.history) = prevState.currentMove + 2

\* C32: in every state rendered by Game the board is disabled and the
\* 'Start a new game' button is shown exactly when winner is not null or
\* isDraw is set, which is exactly when the board under the cursor is won
\* or full; after a reset, and after a jump to a board that is neither won
\* nor full, the board is enabled and the button is gone.
C32_DisabledIffGameOver ==
  LET over == gameState.winner # Null \/ gameState.isDraw
  IN /\ isGameOver(gameState) = over
     /\ ResetButtonShown(gameState) = over
     /\ over = GameOver(BoardAt(gameState))
     /\ lastCall.op = "reset" =>
          ~isGameOver(gameState) /\ ~ResetButtonShown(gameState)
     /\ (lastCall.op = "jump"
          /\ ~GameOver(prevState.history[lastCall.arg + 1])) =>
          ~isGameOver(gameState) /\ ~ResetButtonShown(gameState)

\* A jump from a finished game back to a board in progress has enabled the
\* board again, and the focus effect has put the focus on a square.
C32_Witness ==
  /\ lastCall.op = "jump"
  /\ isGameOver(prevState)
  /\ ResetButtonShown(prevState)
  /\ ~GameOver(prevState.history[lastCall.arg + 1])
  /\ ~isGameOver(gameState)
  /\ activeElement = SquareButton(focusedSquare)

\* C33: in every state rendered by Game the history list has exactly one
\* button per entry of the history (moves 0..length-1) and exactly the
\* button of the cursor is disabled, so every jumpToMove issued through the
\* list carries an index in range and other than the cursor (and moves the
\* cursor there).
C33_OneButtonPerEntry ==
  /\ MoveButtons(gameState) = 0..(Len(gameState.history) - 1)
  /\ Cardinality(MoveButtons(gameState)) = Len(gameState.history)
  /\ {move \in MoveButtons(gameState) : MoveButtonDisabled(gameState, move)}
       = {gameState.currentMove}
  /\ lastCall.op = "jump" =>
       /\ lastCall.arg \in 0..(Len(prevState.history) - 1)
       /\ lastCall.arg # prevState.currentMove
       /\ gameState.currentMove = lastCall.arg
       /\ gameState.history = prevState.history

\* A jump forward through the list, from the first entry of a history of
\* at least three boards.
C33_Witness ==
  /\ lastCall.op = "jump"
  /\ prevState.currentMove = 0
  /\ lastCall.arg >= 2
  /\ gameState.currentMove = lastCall.arg
  /\ Cardinality(MoveButtons(gameState)) >= 3

C35_GivenFallbackIsShown ==
  boundaryState.hasError =>
    boundaryView.shown
      = IF boundaryProps.fallback # "undefined" THEN "fallback" ELSE "alert"

\* C35 (the rest of the claim, with a fallback that JavaScript takes as
\* true): the boundary shows its children while it has no error; once an
\* error is caught it shows the fallback or the default alert and later
\* re-renders keep its state and do not render the children; handleReset
\* clears hasError, error and errorInfo and the children are rendered
\* again; onError, when given, is called exactly once per caught error.
C35_LatchedUntilReset ==
  /\ boundaryState.hasError =>
       /\ boundaryView.shown
            = IF Truthy(boundaryProps.fallback) THEN "fallback" ELSE "alert"
       /\ boundaryState.error \in 1..boundaryView.caught
       /\ boundaryState.errorInfo = boundaryState.error
  /\ ~boundaryState.hasError =>
       /\ boundaryView.shown = "children"
       /\ boundaryView.children
       /\ boundaryState = InitialBoundaryState
  /\ (boundaryView.op = "rerender" /\ boundaryView.before.hasError) =>
       /\ boundaryState = boundaryView.before
       /\ ~boundaryView.children
       /\ boundaryView.thrown = 0
  /\ boundaryView.op = "reset" =>
       /\ boundaryView.before.hasError
       /\ boundaryView.children
       /\ ~boundaryProps.throws => boundaryState = InitialBoundaryState
  /\ boundaryView.called
       = IF boundaryProps.onError THEN boundaryView.thrown ELSE 0
  /\ boundaryView.notified <= boundaryView.caught

\* C36 (as stated): a burst of calls spaced closer than wait leads to
\* exactly one invocation of func: when a call opens the next burst, the
\* burst before it has had its invocation.
C36_AsStated == timerLog.bursts >= 2 => timerLog.closedInvoked = 1

\* C36: func is invoked only by the timer of the most recent call, wait or
\* more after that call and with its arguments; every call cancels the
\* pending timer and sets a new one, so at most one timer is pending and a
\* burst of calls spaced closer than wait leads to at most one invocation.
\* Until the invocation the timer of the last call of the burst stays
\* pending; the burst ends without an invocation only if the call that
\* opens the next burst cancels a timer that was due and had not run.
C36_InvokedOnceAfterWait ==
  LET last == [id |-> timerLog.calls,
               callback |-> [fn |-> "func", args |-> timerLog.lastArgs],
               due |-> timerLog.lastCallAt + wrapped.delay]
  IN /\ timerLog.op = "run" =>
          /\ now - timerLog.lastCallAt >= wrapped.delay
          /\ timerLog.delivered = timerLog.lastArgs
     /\ timerLog.burstInvoked <= 1
     /\ timerLog.closedInvoked <= 1
     /\ timerLog.calls = 0 => timers = {} /\ timerLog.invoked = 0
     /\ (timerLog.calls > 0 /\ timerLog.burstInvoked = 0) => timers = {last}
     /\ timerLog.burstInvoked = 1 =>
          timers = {} /\ timerLog.delivered = timerLog.lastArgs
     /\ (timerLog.op = "call" /\ timerLog.opened /\ timerLog.bursts >= 2
          /\ timerLog.closedInvoked = 0) =>
          /\ timerLog.cancelled # NoTimer
          /\ timerLog.cancelledDue <= now

\* A burst of three calls with wait 2 has led to one invocation, with the
\* arguments of the last call.
C36_Witness ==
  /\ wrapped.delay = 2
  /\ timerLog.op = "run"
  /\ timerLog.calls = 3
  /\ timerLog.bursts = 1
  /\ timerLog.invoked = 1
  /\ timerLog.delivered = timerLog.lastArgs
  /\ timers = {}

\* C37 (as stated): a call is forwarded to func if and only if no forwarded
\* call happened within the limit time units before it.
C37_AsStated ==
  timerLog.op = "call" =>
    (timerLog.forwarded
       = (~timerLog.hadForward \/ timerLog.gap >= wrapped.delay))

\* C37: a call is forwarded to func, at once, only if no forwarded call
\* happened within the limit time units before it, and it is forwarded
\* whenever the timer set by the last forwarded call has run (so the first
\* call is always forwarded); a call is dropped exactly while that timer
\* is pending, and dropped calls are never executed later: func has run
\* once per forwarded call, with the arguments of that call.
C37_ForwardedOncePerWindow ==
  /\ (timerLog.op = "call" /\ timerLog.forwarded) =>
       /\ ~timerLog.hadForward \/ timerLog.gap >= wrapped.delay
       /\ ~timerLog.wasInThrottle
  /\ (timerLog.op = "call" /\ ~timerLog.forwarded) =>
       timerLog.hadForward /\ timerLog.wasInThrottle
  /\ (timerLog.op = "call" /\ ~timerLog.hadForward) => timerLog.forwarded
  /\ timerLog.invoked = timerLog.forwards
  /\ timerLog.forwards > 0 => timerLog.delivered = timerLog.lastArgs
  /\ wrapped.inThrottle = (timers # {})
  /\ wrapped.inThrottle =>
       \E id \in 1..timerLog.calls :
         timers = {[id |-> id, callback |-> [fn |-> "reset", args |-> 0],
                    due |-> timerLog.lastForwardAt + wrapped.delay]}

\* With limit 2 the first call was forwarded, the second one was dropped
\* inside the window and the third one was forwarded after the window.
C37_Witness ==
  /\ wrapped.delay = 2
  /\ timerLog.op = "call"
  /\ timerLog.calls = 3
  /\ timerLog.forwards = 2
  /\ timerLog.forwarded
  /\ timerLog.gap >= 2
  /\ timerLog.invoked = 2

\* C38: with a deterministic fn and a key of its own for each argument,
\* every call of the memoized function returns what fn returns on the same
\* arguments, also when the key was evicted before; fn is invoked exactly
\* on the calls whose key is not in the Map, so at most once for as long
\* as the key stays there, and the Map holds under each key the value of fn
\* on the arguments of that key.
C38_MemoizedEqualsFn ==
  /\ DOMAIN cacheValues = {cache[k] : k \in DOMAIN cache}
  /\ \A args \in MemoArgs :
       Has(cache, getKey(args)) => cacheValues[getKey(args)] = fn(args)
  /\ returned.fn = "memoized" =>
       /\ returned.value = fn(returned.args)
       /\ returned.invoked = ~Has(returned.before, returned.key)

\* Arguments whose key was evicted earlier are passed again while the Map
\* is full: fn is invoked once more and its value is returned and stored.
C38_Witness ==
  /\ returned.fn = "memoized"
  /\ Len(returned.before) = CacheLimit
  /\ returned.key < returned.before[1]
  /\ returned.invoked
  /\ returned.value = fn(returned.args)
  /\ cacheValues[returned.key] = returned.value
  /\ returned.before[1] \notin DOMAIN cacheValues

\* C39: in every reachable state, whatever index the handler of the render
\* is called with, a call that passes the guard hands makeMove a move that
\* isValidMove accepts on the same board, so makeMove returns a board and
\* the catch branch of handleSquareClick is not taken; no call made has
\* taken it.
C39_CatchIsUnreachable ==
  /\ \A index \in (0 - Slack)..(BOARD_SIZE - 1 + Slack) :
       /\ ~handleSquareClick(gameState, index).caught
       /\ (winner(gameState) = Null /\ ~isGameDraw(gameState)
             /\ isValidMove(currentSquares(gameState), index))
            => makeMove(currentSquares(gameState), index,
                        currentPlayer(gameState)).ok
  /\ ~lastCall.caught

\* A click on an occupied square of a game in progress was turned away by
\* the guard, before makeMove: nothing was queued, thrown or caught.
C39_Witness ==
  /\ lastCall.op = "click"
  /\ lastCall.arg \in Cells
  /\ currentSquares(prevState)[lastCall.arg] # Null
  /\ winner(prevState) = Null
  /\ ~isGameDraw(prevState)
  /\ ~makeMove(currentSquares(prevState), lastCall.arg,
               currentPlayer(prevState)).ok
  /\ ~lastCall.caught
  /\ ~lastCall.installed
  /\ gameState = prevState

====
